---- MODULE Spec2Model ----
(***************************************************************************)
(* Model of pkg/worker/verifier/transactional_producer_worker.go:          *)
(* the Retry Orchestrator (Wait), the Epoch Runner (produceInner), the     *)
(* completion handler of every produced record, and the Status counters.   *)
(* The Kafka client (kgo) and the broker are the environment: every call   *)
(* into the client succeeds or fails nondeterministically, and every       *)
(* record is acknowledged at its predicted offset, at another offset, or   *)
(* fails to be delivered.                                                  *)
(***************************************************************************)
EXTENDS Integers, Sequences, FiniteSets, TLC

\* ------------------------------------------------------------------ bounds
\* Largest configured messageCount.
MaxMessageCount == 3
\* Largest configured msgsPerTransaction (0 would divide by zero at i = 1).
MaxMsgsPerTransaction == 2
\* Largest configured nPartitions (rand.Int31n panics for values below 1).
MaxPartitions == 2
\* Capacity of the weighted semaphore `concurrent` (4096 in the source).
SemaphoreCapacity == 2
\* Capacity of the bad_offsets channel (16384 in the source).
ChannelCapacity == 3
\* How many acknowledgements the broker may place at an unexpected offset.
MaxMismatches == 1
\* How many client calls (NewClient, BeginTransaction, Flush, EndTransaction,
\* delivery) the environment may fail.
MaxFailures == 1
\* rand.Float64() is drawn from {0/D, 1/D, ..., (D-1)/D}: the interval [0, 1).
RandDenominator == 4

\* --------------------------------------------------------------- variables
VARIABLES
    config,          \* TransactionalProducerConfig (immutable after Init)
    fakeTimestampMs, \* pw.fakeTimestampMs
    Status,          \* pw.Status: the counters, the latency histogram, Active
    validOffsets,    \* pw.validOffsets: the Offset Ledger, a set of <<p, o>>
    storedOffsets,   \* what validOffsets.Store() persisted last
    pc,              \* position of the thread that runs Wait / produceInner
    n,               \* Wait: the still-remaining count
    waitResult,      \* what Wait returned: "none" (not yet), "nil", "err"
    currentOffsets,  \* produceInner: expected-offset cursor per partition
    errored,         \* produceInner: errored
    produced,        \* produceInner: produced
    bad_offsets,     \* produceInner: contents of the bad_offsets channel
    concurrent,      \* produceInner: units the semaphore still has to give
    wg,              \* produceInner: the WaitGroup's counter
    willAbort,       \* produceInner: willAbort
    i,               \* produceInner: loop index
    p,               \* produceInner: partition chosen for this iteration
    recs,            \* records handed to client.Produce in this epoch, with
                     \* the state of each one's completion handler
    txn,             \* client: transactions begun in this epoch (0: none)
    txnOpen,         \* client: is a transaction open
    ends,            \* client: the EndTransaction calls of this epoch
    boundaries,      \* loop indices at which this epoch ran a batch boundary
    hwm,             \* broker: end offset of every partition's log
    epochs,          \* history: one entry per produceInner call that returned
    handed,          \* history: records handed to client.Produce since the
                     \* Status was created
    mismatches,      \* environment: acknowledgements at an unexpected offset
    failures,        \* environment: failed client calls
    lock,            \* Status.lock: 0 when free, else the index in recs of
                     \* the record whose handler holds it
    mismatchBudget   \* environment: how many acknowledgements the broker may
                     \* place at an unexpected offset in this run

vars == <<config, fakeTimestampMs, Status, validOffsets, storedOffsets, pc, n,
          waitResult, currentOffsets, errored, produced, bad_offsets,
          concurrent, wg, willAbort, i, p, recs, txn, txnOpen, ends,
          boundaries, hwm, epochs, handed, mismatches, failures, lock,
          mismatchBudget>>

\* produceInner's locals and the client of one epoch.
epochVars == <<currentOffsets, errored, produced, bad_offsets, concurrent, wg,
               willAbort, i, p, recs, txn, txnOpen, ends, boundaries>>

\* ----------------------------------------------------------------- helpers
Partitions(cfg) == 0 .. (cfg.nPartitions - 1)

\* The values rand.Float64() can return, as numerators over RandDenominator.
RandFloat64 == 0 .. (RandDenominator - 1)

\* The configured abort rates, as numerators over RandDenominator: 0, 1/2, 1.
AbortRates == {0, RandDenominator \div 2, RandDenominator}

Max(a, b) == IF a >= b THEN a ELSE b

\* NewTransactionalProducerWorkerStatus: every counter zero, Active false.
NewTransactionalProducerWorkerStatus ==
    [Sent |-> 0, Acked |-> 0, BadOffsets |-> 0, FailedTransactions |-> 0,
     Restarts |-> 0, latency |-> 0, Active |-> FALSE]

\* Mutant of newRecord: the key never gets the sentinel prefix.
newRecordNoSentinel(producerId, sequence, aborted, fakeTs) ==
    [key |-> [prefix |-> "", producerId |-> producerId,
              sequence |-> sequence],
     timestamp |-> IF fakeTs # -1 THEN fakeTs ELSE -1]

\* newRecord: the key is the sentinel prefix (for a record of a transaction
\* that will be aborted), the producer id and the sequence; the timestamp is
\* the fake one when fake timestamps are on (-1: the client's wall clock).
newRecord(producerId, sequence, aborted, fakeTs) ==
    [key |-> [prefix |-> IF ~aborted THEN "" ELSE "ABORTED MSG: ",
              producerId |-> producerId,
              sequence |-> sequence],
     timestamp |-> IF fakeTs # -1 THEN fakeTs ELSE -1]

\* newRecord's update of pw.fakeTimestampMs.
NextFakeTimestamp(fakeTs) == IF fakeTs # -1 THEN fakeTs + 1 ELSE fakeTs

\* Mutant of AbortDecision: the operands of the comparison are swapped.
AbortDecisionSwapped(abortRate, r) == r >= abortRate

\* The abort decision: pw.config.abortRate >= rand.Float64().
AbortDecision(abortRate, r) == abortRate >= r

\* The batch-boundary test of the dispatch loop.
AtBoundary(idx, msgsPerTransaction) ==
    idx > 0 /\ idx % msgsPerTransaction = 0

\* Mutant of BoundaryOffsets: an abort is taken to leave a control record
\* as a commit does.
BoundaryOffsetsAlwaysTwo(offsets, aborted) ==
    [q \in DOMAIN offsets |-> offsets[q] + 2]

\* The cursor update after a batch boundary: +2 after a commit, +1 after an
\* abort, on every partition.
BoundaryOffsets(offsets, aborted) ==
    [q \in DOMAIN offsets |-> IF ~aborted THEN offsets[q] + 2
                                          ELSE offsets[q] + 1]

\* The cursor update after the first BeginTransaction: +1 on every partition.
BeginOffsets(offsets) == [q \in DOMAIN offsets |-> offsets[q] + 1]

\* Mutant of OffsetMatches: the handler reads the cursor as it is when the
\* acknowledgement arrives instead of the value captured at send time.
OffsetMatchesCursor(rec) == rec.offset = currentOffsets[rec.partition]

\* The handler's test: was the record acknowledged at the offset captured
\* for it at send time.
OffsetMatches(rec) == rec.offset = rec.currentOffset


\* Mutant of OnAcked: the acknowledgement is counted in both counters.
OnAckedBoth(status) ==
    [status EXCEPT !.Acked = @ + 1, !.BadOffsets = @ + 1]

\* OnAcked, line 127, and OnBadOffset, line 133: the increment each makes
\* while it holds the lock.
OnAcked(status) == [status EXCEPT !.Acked = @ + 1]

OnBadOffset(status) == [status EXCEPT !.BadOffsets = @ + 1]


\* Mutant of LoopContinues: the loop does not look at the channel.
LoopContinuesDespiteBad(idx, count, nBad) == idx < count

\* The condition of the dispatch loop, line 219.
LoopContinues(idx, count, nBad) == idx < count /\ nBad = 0


\* Mutant of SemaphoreAvailable: Acquire never waits.
SemaphoreAvailableAlways(units) == TRUE

\* concurrent.Acquire returns when the semaphore has a unit to give.
SemaphoreAvailable(units) == units > 0


\* Mutant of WaitGroupDone: the wait is released whatever the counter.
WaitGroupDoneEarly(counter) == TRUE

\* wg.Wait returns when the counter of the WaitGroup is zero.
WaitGroupDone(counter) == counter = 0


\* Mutant of RestartsAfter: another run at produceInner is not recorded.
RestartsAfterUncounted(restarts, left) == restarts

\* Wait, lines 162-167: the restart counter after an epoch that left `left`
\* messages to produce.
RestartsAfter(restarts, left) == IF left <= 0 THEN restarts ELSE restarts + 1

\* produceInner's return value.
SuccessfulProduced(isErrored, nProduced, badList) ==
    IF isErrored THEN nProduced - Len(badList) ELSE nProduced

\* Wait: the remaining count after an epoch.
Remaining(remaining, n_produced) == remaining - n_produced

\* Mutant of WaitDone: the run stops one message early.
WaitDoneOffByOne(remaining) == remaining <= 1

\* Wait: is the run complete.
WaitDone(remaining) == remaining <= 0

\* ------------------------------------------------------------------- Init
\* The worker as NewTransactionalProducerWorker leaves it, whatever its
\* configuration.
InitWorker ==
    /\ Status = NewTransactionalProducerWorkerStatus
    /\ validOffsets = {}
    /\ storedOffsets = {}
    /\ pc = "idle"
    /\ n = 0
    /\ waitResult = "none"
    /\ currentOffsets = <<>>
    /\ errored = FALSE
    /\ produced = 0
    /\ bad_offsets = <<>>
    /\ concurrent = SemaphoreCapacity
    /\ wg = 0
    /\ willAbort = FALSE
    /\ i = 0
    /\ p = 0
    /\ recs = <<>>
    /\ txn = 0
    /\ txnOpen = FALSE
    /\ ends = <<>>
    /\ boundaries = {}
    /\ hwm = [q \in Partitions(config) |-> 0]
    /\ epochs = <<>>
    /\ handed = 0
    /\ mismatches = 0
    /\ failures = 0
    /\ lock = 0

Init ==
    /\ config \in [messageCount : 0 .. MaxMessageCount,
                   msgsPerTransaction : 1 .. MaxMsgsPerTransaction,
                   nPartitions : 1 .. MaxPartitions,
                   abortRate : AbortRates]
    /\ fakeTimestampMs \in {-1, 0}
    /\ mismatchBudget = MaxMismatches
    /\ InitWorker

\* A worker configured to produce one message more than the bad-offset
\* channel holds, in one partition, against a broker that may place every
\* acknowledgement at an unexpected offset.
InitBurst ==
    /\ config = [messageCount |-> ChannelCapacity + 1,
                 msgsPerTransaction |-> ChannelCapacity,
                 nPartitions |-> 1,
                 abortRate |-> 0]
    /\ fakeTimestampMs = -1
    /\ mismatchBudget = ChannelCapacity + 1
    /\ InitWorker

\* ------------------------------------------------------- Retry Orchestrator
\* Has every completion handler of this epoch returned.
AllHandlersDone == \A k \in DOMAIN recs : recs[k].st = "done"

\* The entry the history keeps of a produceInner call that returned.
EpochEntry(nProduced, nBad, isErr) ==
    [arg |-> n, ret |-> nProduced, bad |-> nBad, err |-> isErr,
     cause |-> "", dispatched |-> Len(recs),
     mismatched |-> Cardinality({k \in DOMAIN recs : ~OffsetMatches(recs[k])})]

\* The entry of a produceInner call that returned (0, nil, err): the call
\* that failed is its cause.
FatalEntry(cause) ==
    [arg |-> n, ret |-> 0, bad |-> 0, err |-> TRUE, cause |-> cause,
     dispatched |-> 0, mismatched |-> 0]


\* Mutant of WaitReturns: Active is left as it is when Wait returns.
WaitReturnsStillActive(status) == status

\* Wait, line 147: the deferred function runs on every return of Wait.
WaitReturns(status) == [status EXCEPT !.Active = FALSE]

\* Wait, lines 146-149: Active is set, n is the configured count.
WaitStart ==
    /\ pc = "idle"
    /\ Status' = [Status EXCEPT !.Active = TRUE]
    /\ n' = config.messageCount
    /\ pc' = "epoch"
    /\ UNCHANGED <<config, lock, mismatchBudget, fakeTimestampMs,
                   validOffsets, storedOffsets, waitResult, epochVars, hwm,
                   epochs, handed, mismatches, failures>>

\* produceInner, lines 172-203: the client is created, the cursors are read
\* from the broker, and the locals of the epoch are initialised.
EpochStart ==
    /\ pc = "epoch"
    /\ currentOffsets' = hwm
    /\ errored' = FALSE
    /\ produced' = 0
    /\ bad_offsets' = <<>>
    /\ concurrent' = SemaphoreCapacity
    /\ wg' = 0
    /\ willAbort' = FALSE
    /\ i' = 0
    /\ p' = 0
    /\ recs' = <<>>
    /\ txn' = 0
    /\ txnOpen' = FALSE
    /\ ends' = <<>>
    /\ boundaries' = {}
    /\ pc' = "begin0"
    /\ UNCHANGED <<config, lock, mismatchBudget, fakeTimestampMs, Status,
                   validOffsets, storedOffsets, n, waitResult, hwm, epochs,
                   handed, mismatches, failures>>

\* produceInner, lines 182-186: kgo.NewClient fails; the error goes to Wait,
\* which returns it (lines 153-155) after its deferred Active = false.
NewClientFails ==
    /\ pc = "epoch"
    /\ failures < MaxFailures
    /\ failures' = failures + 1
    /\ epochs' = Append(epochs, FatalEntry("NewClient"))
    /\ Status' = WaitReturns(Status)
    /\ waitResult' = "err"
    /\ pc' = "done"
    /\ UNCHANGED <<config, lock, mismatchBudget, fakeTimestampMs,
                   validOffsets, storedOffsets, n, epochVars, hwm, handed,
                   mismatches>>

\* produceInner, lines 205-217: the first BeginTransaction succeeds; every
\* cursor moves past its control record and the abort decision is rolled.
FirstBeginOk ==
    /\ pc = "begin0"
    /\ txn' = txn + 1
    /\ txnOpen' = TRUE
    /\ currentOffsets' = BeginOffsets(currentOffsets)
    /\ \E r \in RandFloat64 : willAbort' = AbortDecision(config.abortRate, r)
    /\ i' = 0
    /\ pc' = "loop"
    /\ UNCHANGED <<config, lock, mismatchBudget, fakeTimestampMs, Status,
                   validOffsets, storedOffsets, n, waitResult, errored,
                   produced, bad_offsets, concurrent, wg, p, recs, ends,
                   boundaries, hwm, epochs, handed, mismatches, failures>>

\* produceInner, lines 205-209: the first BeginTransaction fails; it is
\* counted and the error is returned, which Wait returns in turn.
FirstBeginFails ==
    /\ pc = "begin0"
    /\ failures < MaxFailures
    /\ failures' = failures + 1
    /\ epochs' = Append(epochs, FatalEntry("BeginTransaction"))
    /\ Status' = WaitReturns([Status EXCEPT !.FailedTransactions = @ + 1])
    /\ waitResult' = "err"
    /\ pc' = "done"
    /\ UNCHANGED <<config, lock, mismatchBudget, fakeTimestampMs,
                   validOffsets, storedOffsets, n, epochVars, hwm, handed,
                   mismatches>>

\* ------------------------------------------------------------ dispatch loop
\* Line 219: the loop condition.
LoopCheck ==
    /\ pc = "loop"
    /\ pc' = IF LoopContinues(i, n, Len(bad_offsets)) THEN "acquire"
                                                       ELSE "flushF"
    /\ UNCHANGED <<config, lock, mismatchBudget, fakeTimestampMs, Status,
                   validOffsets, storedOffsets, n, waitResult, epochVars, hwm,
                   epochs, handed, mismatches, failures>>

\* Lines 220-225: a unit of the semaphore is taken (the loop blocks while
\* there is none), the record is counted, its partition is drawn, and the
\* batch boundary is tested.
Acquire ==
    /\ pc = "acquire"
    /\ SemaphoreAvailable(concurrent)
    /\ concurrent' = concurrent - 1
    /\ produced' = produced + 1
    /\ Status' = [Status EXCEPT !.Sent = @ + 1]
    /\ \E q \in Partitions(config) : p' = q
    /\ IF AtBoundary(i, config.msgsPerTransaction)
         THEN /\ boundaries' = boundaries \cup {i}
              /\ pc' = "flushB"
         ELSE /\ boundaries' = boundaries
              /\ pc' = "send"
    /\ UNCHANGED <<config, lock, mismatchBudget, fakeTimestampMs,
                   validOffsets, storedOffsets, n, waitResult, currentOffsets,
                   errored, bad_offsets, wg, willAbort, i, recs, txn, txnOpen,
                   ends, hwm, epochs, handed, mismatches, failures>>

\* Mutant of TransactionFailure: the failure is not counted.
TransactionFailureUncounted(next) ==
    /\ failures < MaxFailures
    /\ failures' = failures + 1
    /\ errored' = TRUE
    /\ Status' = Status
    /\ pc' = next

\* A boundary or finalization step failed: errored is set and the failure is
\* counted (lines 228-229, 234-235, 240-241, 305-306, 310-311).
TransactionFailure(next) ==
    /\ failures < MaxFailures
    /\ failures' = failures + 1
    /\ errored' = TRUE
    /\ Status' = [Status EXCEPT !.FailedTransactions = @ + 1]
    /\ pc' = next

\* Mutant of TransactionEndTry: every transaction is committed.
TransactionEndTryCommit(aborting) == TRUE

\* The argument of EndTransaction, kgo.TransactionEndTry(!willAbort): TRUE
\* asks for a commit, FALSE for an abort.
TransactionEndTry(aborting) == ~aborting

\* The entry an EndTransaction call leaves in the history.
EndCall(ok) ==
    [txn |-> IF txnOpen THEN txn ELSE 0, commit |-> TransactionEndTry(willAbort),
     ok |-> ok]

\* Lines 226-231: Flush at a batch boundary. A Flush that succeeds returns
\* after the handler of every buffered record has returned.
FlushBoundaryOk ==
    /\ pc = "flushB"
    /\ AllHandlersDone
    /\ pc' = "endB"
    /\ UNCHANGED <<config, lock, mismatchBudget, fakeTimestampMs, Status,
                   validOffsets, storedOffsets, n, waitResult, epochVars, hwm,
                   epochs, handed, mismatches, failures>>

FlushBoundaryFails ==
    /\ pc = "flushB"
    /\ TransactionFailure("flushF")
    /\ UNCHANGED <<config, lock, mismatchBudget, fakeTimestampMs,
                   validOffsets, storedOffsets, n, waitResult, currentOffsets,
                   produced, bad_offsets, concurrent, wg, willAbort, i, p,
                   recs, txn, txnOpen, ends, boundaries, hwm, epochs, handed,
                   mismatches>>

\* Lines 232-237: EndTransaction at a batch boundary, commit unless willAbort.
EndBoundaryOk ==
    /\ pc = "endB"
    /\ ends' = Append(ends, EndCall(TRUE))
    /\ txnOpen' = FALSE
    /\ pc' = "beginB"
    /\ UNCHANGED <<config, lock, mismatchBudget, fakeTimestampMs, Status,
                   validOffsets, storedOffsets, n, waitResult, currentOffsets,
                   errored, produced, bad_offsets, concurrent, wg, willAbort,
                   i, p, recs, txn, boundaries, hwm, epochs, handed,
                   mismatches, failures>>

EndBoundaryFails ==
    /\ pc = "endB"
    /\ TransactionFailure("flushF")
    /\ ends' = Append(ends, EndCall(FALSE))
    /\ UNCHANGED <<config, lock, mismatchBudget, fakeTimestampMs,
                   validOffsets, storedOffsets, n, waitResult, currentOffsets,
                   produced, bad_offsets, concurrent, wg, willAbort, i, p,
                   recs, txn, txnOpen, boundaries, hwm, epochs, handed,
                   mismatches>>

\* Lines 238-262: BeginTransaction at a batch boundary; the cursors move past
\* the control records and the abort decision is rolled again.
BeginBoundaryOk ==
    /\ pc = "beginB"
    /\ txn' = txn + 1
    /\ txnOpen' = TRUE
    /\ currentOffsets' = BoundaryOffsets(currentOffsets, willAbort)
    /\ \E r \in RandFloat64 : willAbort' = AbortDecision(config.abortRate, r)
    /\ pc' = "send"
    /\ UNCHANGED <<config, lock, mismatchBudget, fakeTimestampMs, Status,
                   validOffsets, storedOffsets, n, waitResult, errored,
                   produced, bad_offsets, concurrent, wg, i, p, recs, ends,
                   boundaries, hwm, epochs, handed, mismatches, failures>>

BeginBoundaryFails ==
    /\ pc = "beginB"
    /\ TransactionFailure("flushF")
    /\ UNCHANGED <<config, lock, mismatchBudget, fakeTimestampMs,
                   validOffsets, storedOffsets, n, waitResult, currentOffsets,
                   produced, bad_offsets, concurrent, wg, willAbort, i, p,
                   recs, txn, txnOpen, ends, boundaries, hwm, epochs, handed,
                   mismatches>>

\* The record of line 267-268 with what its handler captures (currentOffset)
\* and the state of its handler; afterBad tells whether the channel held a
\* bad offset when the record was handed to the client.
Dispatched(currentOffset) ==
    [rec |-> newRecord(0, currentOffset, willAbort, fakeTimestampMs),
     partition |-> p,
     currentOffset |-> currentOffset,
     txn |-> txn,
     offset |-> -1,
     inserted |-> FALSE,
     afterBad |-> Len(bad_offsets) > 0,
     st |-> "sent"]

\* Lines 264-300: the cursor is captured and advanced, the record is built
\* and handed to client.Produce, and a checkpoint is written when the last
\* one is more than 5 seconds old.
Send ==
    /\ pc = "send"
    /\ currentOffsets' = [currentOffsets EXCEPT ![p] = @ + 1]
    /\ recs' = Append(recs, Dispatched(currentOffsets[p]))
    /\ fakeTimestampMs' = NextFakeTimestamp(fakeTimestampMs)
    /\ wg' = wg + 1
    /\ handed' = handed + 1
    /\ \E due \in BOOLEAN :
         storedOffsets' = IF due THEN validOffsets ELSE storedOffsets
    /\ i' = i + 1
    /\ pc' = "loop"
    /\ UNCHANGED <<config, lock, mismatchBudget, Status, validOffsets, n,
                   waitResult, errored, produced, bad_offsets, concurrent,
                   willAbort, p, txn, txnOpen, ends, boundaries, hwm, epochs,
                   mismatches, failures>>

\* ------------------------------------------------------------- finalization
\* Lines 303-307: the final Flush; the epoch goes on whether it fails or not.
FlushFinalOk ==
    /\ pc = "flushF"
    /\ AllHandlersDone
    /\ pc' = "endF"
    /\ UNCHANGED <<config, lock, mismatchBudget, fakeTimestampMs, Status,
                   validOffsets, storedOffsets, n, waitResult, epochVars, hwm,
                   epochs, handed, mismatches, failures>>

FlushFinalFails ==
    /\ pc = "flushF"
    /\ TransactionFailure("endF")
    /\ UNCHANGED <<config, lock, mismatchBudget, fakeTimestampMs,
                   validOffsets, storedOffsets, n, waitResult, currentOffsets,
                   produced, bad_offsets, concurrent, wg, willAbort, i, p,
                   recs, txn, txnOpen, ends, boundaries, hwm, epochs, handed,
                   mismatches>>

\* Lines 308-312: the final EndTransaction, commit unless willAbort.
EndFinalOk ==
    /\ pc = "endF"
    /\ ends' = Append(ends, EndCall(TRUE))
    /\ txnOpen' = FALSE
    /\ pc' = "wait"
    /\ UNCHANGED <<config, lock, mismatchBudget, fakeTimestampMs, Status,
                   validOffsets, storedOffsets, n, waitResult, currentOffsets,
                   errored, produced, bad_offsets, concurrent, wg, willAbort,
                   i, p, recs, txn, boundaries, hwm, epochs, handed,
                   mismatches, failures>>

EndFinalFails ==
    /\ pc = "endF"
    /\ TransactionFailure("wait")
    /\ ends' = Append(ends, EndCall(FALSE))
    /\ UNCHANGED <<config, lock, mismatchBudget, fakeTimestampMs,
                   validOffsets, storedOffsets, n, waitResult, currentOffsets,
                   produced, bad_offsets, concurrent, wg, willAbort, i, p,
                   recs, txn, txnOpen, boundaries, hwm, epochs, handed,
                   mismatches>>

\* The broker's log after the epoch: past every predicted and every
\* acknowledged offset.
LogEnd(q) ==
    LET acked == {recs[k].offset + 1 :
                    k \in {j \in DOMAIN recs : recs[j].partition = q}}
        top == IF acked = {} THEN 0
               ELSE CHOOSE a \in acked : \A b \in acked : b <= a
    IN  Max(currentOffsets[q], top)

\* Lines 314-333 and 153-168: wg.Wait returns once every handler has called
\* Done; the channel is closed and drained, the checkpoint is written, the
\* successful count is returned, and Wait subtracts it from the remaining
\* count and either returns or counts a restart and runs another epoch.
EpochReturn ==
    /\ pc = "wait"
    /\ WaitGroupDone(wg)
    /\ storedOffsets' = validOffsets
    /\ LET n_produced == SuccessfulProduced(errored, produced, bad_offsets)
           left == Remaining(n, n_produced)
       IN  /\ epochs' = Append(epochs,
                   EpochEntry(n_produced,
                              IF errored THEN Len(bad_offsets) ELSE 0, FALSE))
           /\ n' = left
           /\ IF WaitDone(left)
                THEN /\ Status' = WaitReturns(Status)
                     /\ waitResult' = "nil"
                     /\ pc' = "done"
                ELSE /\ Status' = [Status EXCEPT !.Restarts =
                                                RestartsAfter(@, left)]
                     /\ waitResult' = waitResult
                     /\ pc' = "epoch"
    /\ hwm' = [q \in DOMAIN hwm |-> LogEnd(q)]
    /\ UNCHANGED <<config, lock, mismatchBudget, fakeTimestampMs,
                   validOffsets, epochVars, handed, mismatches, failures>>

\* ------------------------------------------------------- completion handler
HandlerRuns == pc \notin {"crashed"}

\* The offsets the broker may acknowledge a record at: the predicted one, or
\* (a bounded number of times) the one after it.
AckOffsets(rec) ==
    {rec.currentOffset} \cup
    (IF mismatches < mismatchBudget THEN {rec.currentOffset + 1} ELSE {})

\* Lines 272-274 with a delivered record: the handler starts, releases its
\* unit of the semaphore and sees the offset the broker assigned.
HandlerStart(k) ==
    /\ HandlerRuns
    /\ recs[k].st = "sent"
    /\ concurrent' = concurrent + 1
    /\ \E o \in AckOffsets(recs[k]) :
         /\ recs' = [recs EXCEPT ![k].offset = o, ![k].st = "released"]
         /\ mismatches' = IF o = recs[k].currentOffset THEN mismatches
                                                         ELSE mismatches + 1
    /\ UNCHANGED <<config, lock, mismatchBudget, fakeTimestampMs, Status,
                   validOffsets, storedOffsets, pc, n, waitResult,
                   currentOffsets, errored, produced, bad_offsets, wg,
                   willAbort, i, p, txn, txnOpen, ends, boundaries, hwm,
                   epochs, handed, failures>>

\* Lines 272-274 with a delivery error: util.Chk ends the process.
HandlerDeliveryFails(k) ==
    /\ HandlerRuns
    /\ recs[k].st = "sent"
    /\ failures < MaxFailures
    /\ failures' = failures + 1
    /\ concurrent' = concurrent + 1
    /\ pc' = "crashed"
    /\ UNCHANGED <<config, lock, mismatchBudget, fakeTimestampMs, Status,
                   validOffsets, storedOffsets, n, waitResult, currentOffsets,
                   errored, produced, bad_offsets, wg, willAbort, i, p, recs,
                   txn, txnOpen, ends, boundaries, hwm, epochs, handed,
                   mismatches>>

\* Lines 276-278 and 282-284: the acknowledged offset is compared with the
\* captured one, and OnBadOffset or OnAcked is entered: it takes the lock of
\* the Status (lines 125, 131), waiting while another handler holds it.
HandlerCompare(k) ==
    /\ HandlerRuns
    /\ recs[k].st = "released"
    /\ lock = 0
    /\ lock' = k
    /\ recs' = [recs EXCEPT ![k].st = IF ~OffsetMatches(recs[k])
                                        THEN "lockedBad" ELSE "lockedAcked"]
    /\ UNCHANGED <<config, mismatchBudget, fakeTimestampMs, Status,
                   validOffsets, storedOffsets, pc, n, waitResult,
                   currentOffsets, errored, produced, bad_offsets, concurrent,
                   wg, willAbort, i, p, txn, txnOpen, ends, boundaries, hwm,
                   epochs, handed, mismatches, failures>>

\* Lines 126-128 and 132-134: the counter is incremented and the deferred
\* Unlock releases the lock.
HandlerCount(k) ==
    /\ HandlerRuns
    /\ recs[k].st \in {"lockedBad", "lockedAcked"}
    /\ lock = k
    /\ lock' = 0
    /\ IF recs[k].st = "lockedBad"
         THEN /\ Status' = OnBadOffset(Status)
              /\ recs' = [recs EXCEPT ![k].st = "bad"]
         ELSE /\ Status' = OnAcked(Status)
              /\ recs' = [recs EXCEPT ![k].st = "acked"]
    /\ UNCHANGED <<config, mismatchBudget, fakeTimestampMs, validOffsets,
                   storedOffsets, pc, n, waitResult, currentOffsets, errored,
                   produced, bad_offsets, concurrent, wg, willAbort, i, p,
                   txn, txnOpen, ends, boundaries, hwm, epochs, handed,
                   mismatches, failures>>

\* Line 279: the bad offset is sent on the channel (blocks while it is full).
HandlerEnqueue(k) ==
    /\ HandlerRuns
    /\ recs[k].st = "bad"
    /\ Len(bad_offsets) < ChannelCapacity
    /\ bad_offsets' = Append(bad_offsets,
                             <<recs[k].partition, recs[k].offset>>)
    /\ recs' = [recs EXCEPT ![k].st = "enqueued"]
    /\ UNCHANGED <<config, lock, mismatchBudget, fakeTimestampMs, Status,
                   validOffsets, storedOffsets, pc, n, waitResult,
                   currentOffsets, errored, produced, concurrent, wg,
                   willAbort, i, p, txn, txnOpen, ends, boundaries, hwm,
                   epochs, handed, mismatches, failures>>

\* Lines 280-281 and 290: errored is set and the handler is done.
HandlerErrored(k) ==
    /\ HandlerRuns
    /\ recs[k].st = "enqueued"
    /\ errored' = TRUE
    /\ wg' = wg - 1
    /\ recs' = [recs EXCEPT ![k].st = "done"]
    /\ UNCHANGED <<config, lock, mismatchBudget, fakeTimestampMs, Status,
                   validOffsets, storedOffsets, pc, n, waitResult,
                   currentOffsets, produced, bad_offsets, concurrent,
                   willAbort, i, p, txn, txnOpen, ends, boundaries, hwm,
                   epochs, handed, mismatches, failures>>

\* Line 285: the latency sample is added to the histogram.
HandlerLatency(k) ==
    /\ HandlerRuns
    /\ recs[k].st = "acked"
    /\ Status' = [Status EXCEPT !.latency = @ + 1]
    /\ recs' = [recs EXCEPT ![k].st = "latency"]
    /\ UNCHANGED <<config, lock, mismatchBudget, fakeTimestampMs,
                   validOffsets, storedOffsets, pc, n, waitResult,
                   currentOffsets, errored, produced, bad_offsets, concurrent,
                   wg, willAbort, i, p, txn, txnOpen, ends, boundaries, hwm,
                   epochs, handed, mismatches, failures>>

\* Lines 288-290: the acknowledged offset is inserted into the ledger and the
\* handler is done.
HandlerInsert(k) ==
    /\ HandlerRuns
    /\ recs[k].st = "latency"
    /\ validOffsets' = validOffsets \cup
                         {<<recs[k].partition, recs[k].offset>>}
    /\ wg' = wg - 1
    /\ recs' = [recs EXCEPT ![k].inserted = TRUE, ![k].st = "done"]
    /\ UNCHANGED <<config, lock, mismatchBudget, fakeTimestampMs, Status,
                   storedOffsets, pc, n, waitResult, currentOffsets, errored,
                   produced, bad_offsets, concurrent, willAbort, i, p, txn,
                   txnOpen, ends, boundaries, hwm, epochs, handed, mismatches,
                   failures>>

\* ------------------------------------------------------------------- Status
\* ResetStats, called between runs: a fresh Status replaces the old one.
ResetStats ==
    /\ pc = "done"
    /\ Status # NewTransactionalProducerWorkerStatus
    /\ Status' = NewTransactionalProducerWorkerStatus
    /\ handed' = 0
    /\ UNCHANGED <<config, lock, mismatchBudget, fakeTimestampMs,
                   validOffsets, storedOffsets, pc, n, waitResult, epochVars,
                   hwm, epochs, mismatches, failures>>

\* ------------------------------------------------------------ specification
Next ==
    \/ WaitStart
    \/ EpochStart
    \/ NewClientFails
    \/ FirstBeginOk
    \/ FirstBeginFails
    \/ LoopCheck
    \/ Acquire
    \/ FlushBoundaryOk
    \/ FlushBoundaryFails
    \/ EndBoundaryOk
    \/ EndBoundaryFails
    \/ BeginBoundaryOk
    \/ BeginBoundaryFails
    \/ Send
    \/ FlushFinalOk
    \/ FlushFinalFails
    \/ EndFinalOk
    \/ EndFinalFails
    \/ EpochReturn
    \/ \E k \in DOMAIN recs : HandlerStart(k)
    \/ \E k \in DOMAIN recs : HandlerDeliveryFails(k)
    \/ \E k \in DOMAIN recs : HandlerCompare(k)
    \/ \E k \in DOMAIN recs : HandlerCount(k)
    \/ \E k \in DOMAIN recs : HandlerEnqueue(k)
    \/ \E k \in DOMAIN recs : HandlerErrored(k)
    \/ \E k \in DOMAIN recs : HandlerLatency(k)
    \/ \E k \in DOMAIN recs : HandlerInsert(k)
    \/ ResetStats

Spec == Init /\ [][Next]_vars

SpecBurst == InitBurst /\ [][Next]_vars

TypeOK ==
    /\ pc \in {"idle", "epoch", "begin0", "loop", "acquire", "flushB", "endB",
               "beginB", "send", "flushF", "endF", "wait", "done", "crashed"}
    /\ waitResult \in {"none", "nil", "err"}
    /\ concurrent \in 0 .. SemaphoreCapacity
    /\ wg \in 0 .. Len(recs)
    /\ Len(bad_offsets) <= ChannelCapacity
    /\ lock \in {0} \cup DOMAIN recs

\* ================================================================== claims
\* The sum of the successful counts returned by the first k epochs.
RECURSIVE SumRet(_)
SumRet(k) == IF k = 0 THEN 0 ELSE SumRet(k - 1) + epochs[k].ret

\* Does the key carry the sentinel prefix.
HasSentinel(key) == key.prefix = "ABORTED MSG: "

\* C1: Wait calls produceInner each time with exactly the still-remaining
\* count (the configured messageCount less the successful counts returned so
\* far); the remaining count is never negative and never increases; after an
\* epoch that returned no fatal error Wait has returned success exactly when
\* the returned counts sum to messageCount; a fatal error is returned at once
\* and no epoch runs after it.
C1_WaitRemaining ==
    /\ \A k \in DOMAIN epochs :
         /\ epochs[k].arg = config.messageCount - SumRet(k - 1)
         /\ epochs[k].arg >= 0
         /\ epochs[k].ret >= 0
         /\ epochs[k].err => k = Len(epochs)
    /\ pc \notin {"idle"} =>
         /\ n >= 0
         /\ n = config.messageCount - SumRet(Len(epochs))
    /\ Len(epochs) > 0 =>
         IF epochs[Len(epochs)].err
           THEN waitResult = "err" /\ pc = "done"
           ELSE /\ (waitResult = "nil") <=>
                       (SumRet(Len(epochs)) = config.messageCount)
                /\ waitResult = "nil" => pc = "done"
                /\ waitResult # "err"
    /\ Len(epochs) = 0 => waitResult = "none"

\* C1 witness: Wait returned success after an epoch came up short and another
\* one produced the shortfall.
C1_Witness ==
    /\ waitResult = "nil"
    /\ Len(epochs) >= 2
    /\ epochs[1].ret < epochs[1].arg
    /\ epochs[2].arg = epochs[1].arg - epochs[1].ret

\* C2: for every epoch that returns without a fatal error, the returned
\* successful count is the number of records dispatched in the epoch minus
\* the number of them acknowledged at an unexpected offset, also when the
\* epoch stopped on a failure at a transaction boundary.
C2_SuccessfulCount ==
    \A k \in DOMAIN epochs :
        ~epochs[k].err =>
            epochs[k].ret = epochs[k].dispatched - epochs[k].mismatched

\* Was the transaction ended, successfully, with an abort / with a commit.
EndedWithAbort(t) ==
    \E e \in DOMAIN ends : ends[e].txn = t /\ ends[e].ok /\ ~ends[e].commit

EndedWithCommit(t) ==
    \E e \in DOMAIN ends : ends[e].txn = t /\ ends[e].ok /\ ends[e].commit

\* C3 (as stated): no offset of a record written in a transaction that is
\* ended with abort is ever inserted into the Offset Ledger.
C3_OnlyCommittedInserted ==
    \A k \in DOMAIN recs :
        recs[k].inserted => ~EndedWithAbort(recs[k].txn)

\* C3 (amended): every pair inserted into the Offset Ledger belongs to a
\* record acknowledged at its predicted offset, whatever the end of its
\* transaction: the offsets of records of a transaction ended with abort are
\* inserted too, and those records, and only those, carry the sentinel key.
C3_InsertedAcknowledged ==
    \A k \in DOMAIN recs :
        recs[k].inserted =>
            /\ recs[k].offset = recs[k].currentOffset
            /\ <<recs[k].partition, recs[k].offset>> \in validOffsets
            /\ EndedWithAbort(recs[k].txn) => HasSentinel(recs[k].rec.key)
            /\ EndedWithCommit(recs[k].txn) => ~HasSentinel(recs[k].rec.key)

\* C3 witness: the offset of a record of an aborted transaction is in the
\* ledger.
C3_Witness ==
    \E k \in DOMAIN recs :
        /\ recs[k].inserted
        /\ EndedWithAbort(recs[k].txn)
        /\ <<recs[k].partition, recs[k].offset>> \in validOffsets

\* C4: every acknowledgement is compared with the cursor value captured for
\* its record at send time, in whatever order acknowledgements arrive: on a
\* match the acknowledged (partition, offset) is inserted into the ledger and
\* is the predicted one; on a mismatch nothing is inserted for the record.
C4_ComparedWithCaptured ==
    \A k \in DOMAIN recs :
        LET r == recs[k]
            match == r.offset = r.rec.key.sequence
        IN  /\ r.currentOffset = r.rec.key.sequence
            /\ r.st \in {"lockedBad", "bad", "enqueued"} =>
                   ~match /\ ~r.inserted
            /\ r.st \in {"lockedAcked", "acked", "latency"} =>
                   match /\ ~r.inserted
            /\ r.st = "done" => (r.inserted <=> match)
            /\ r.inserted =>
                 /\ <<r.partition, r.offset>> \in validOffsets
                 /\ r.offset = r.rec.key.sequence

\* C4 witness: a record sent later has been acknowledged and inserted while
\* a record sent before it has only just been acknowledged, at an unexpected
\* offset.
C4_Witness ==
    \E j, k \in DOMAIN recs :
        /\ j < k
        /\ recs[j].st = "released"
        /\ recs[j].offset # recs[j].currentOffset
        /\ recs[k].st = "done"
        /\ recs[k].inserted

\* C5: within an epoch the cursor of every partition advances by exactly 1
\* right after the first successful BeginTransaction, by exactly 2 at a batch
\* boundary whose transaction was committed, by exactly 1 at a batch boundary
\* whose transaction was aborted; the cursor of the chosen partition, and
\* only it, advances by exactly 1 per record sent; no other step of the
\* epoch changes a cursor.
C5_CursorStep ==
    IF pc = "epoch" /\ pc' = "begin0"
      THEN currentOffsets' = hwm
    ELSE IF pc = "begin0" /\ pc' = "loop"
      THEN \A q \in DOMAIN currentOffsets :
               currentOffsets'[q] = currentOffsets[q] + 1
    ELSE IF pc = "beginB" /\ pc' = "send"
      THEN /\ ends[Len(ends)].ok
           /\ \A q \in DOMAIN currentOffsets :
                  currentOffsets'[q] = currentOffsets[q] +
                      (IF ends[Len(ends)].commit THEN 2 ELSE 1)
    ELSE IF pc = "send" /\ pc' = "loop"
      THEN /\ Len(recs') = Len(recs) + 1
           /\ LET q == recs'[Len(recs')].partition
              IN  /\ currentOffsets'[q] = currentOffsets[q] + 1
                  /\ \A o \in DOMAIN currentOffsets \ {q} :
                         currentOffsets'[o] = currentOffsets[o]
    ELSE currentOffsets' = currentOffsets

C5_CursorAdvance == [][C5_CursorStep]_vars

\* The number of records of this epoch sent to partition q.
SentTo(q) == Cardinality({k \in DOMAIN recs : recs[k].partition = q})

\* C5 witness: an epoch went through a committed boundary and then an aborted
\* one, and every cursor stands at its start plus 1 (first begin) plus 2
\* (commit) plus 1 (abort) plus the records sent to its partition.
C5_Witness ==
    /\ pc = "send"
    /\ Len(ends) = 2
    /\ ends[1].ok /\ ends[1].commit
    /\ ends[2].ok /\ ~ends[2].commit
    /\ \A q \in DOMAIN currentOffsets :
           currentOffsets[q] = hwm[q] + 1 + 2 + 1 + SentTo(q)

\* C6: the abort decision is made once per transaction: the records of one
\* transaction all carry the sentinel key or none does, they carry it if and
\* only if EndTransaction is asked to abort that transaction, and a
\* transaction whose records carry no sentinel is ended with commit, at a
\* batch boundary as at finalization.
C6_UniformAbortDecision ==
    /\ \A j, k \in DOMAIN recs :
           recs[j].txn = recs[k].txn =>
               (HasSentinel(recs[j].rec.key) <=> HasSentinel(recs[k].rec.key))
    /\ \A k \in DOMAIN recs : \A e \in DOMAIN ends :
           ends[e].txn = recs[k].txn =>
               (HasSentinel(recs[k].rec.key) <=> ~ends[e].commit)
    /\ \A k \in DOMAIN recs :
           /\ recs[k].txn = txn /\ txnOpen =>
                  (HasSentinel(recs[k].rec.key) <=> willAbort)
           /\ recs[k].rec.key.prefix \in {"", "ABORTED MSG: "}

\* C6 witness: a transaction of two records with the sentinel key was ended
\* with abort at a batch boundary, and a transaction whose record has no
\* sentinel was ended with commit at finalization.
C6_Witness ==
    /\ pc = "wait"
    /\ Len(ends) = 2
    /\ ends[1].ok /\ ~ends[1].commit
    /\ ends[2].ok /\ ends[2].commit
    /\ Cardinality({k \in DOMAIN recs : recs[k].txn = ends[1].txn
                                        /\ HasSentinel(recs[k].rec.key)}) = 2
    /\ \E k \in DOMAIN recs :
           recs[k].txn = ends[2].txn /\ ~HasSentinel(recs[k].rec.key)

\* The loop indices at which an epoch asked for count messages crosses a
\* batch boundary: the multiples of msgsPerTransaction strictly between 0 and
\* count.
ExpectedBoundaries(count, msgsPerTransaction) ==
    {b \in 1 .. (count - 1) : b % msgsPerTransaction = 0}

\* C7: with abortRate = 0, a requested count n and msgsPerTransaction = m,
\* while no client call fails and every acknowledgement is at the predicted
\* offset, a single epoch crosses a batch boundary exactly at the multiples
\* of m strictly between 0 and n, every transaction is committed, and when
\* every handler has returned Acked = n, BadOffsets = 0 and the Offset Ledger
\* holds exactly n entries.
C7_NoAbortScenario ==
    (/\ config.abortRate = 0
     /\ Len(epochs) = 0
     /\ failures = 0
     /\ mismatches = 0
     /\ pc \notin {"idle", "epoch", "done", "crashed"}) =>
        /\ boundaries \subseteq
               ExpectedBoundaries(n, config.msgsPerTransaction)
        /\ \A e \in DOMAIN ends : ends[e].commit /\ ends[e].ok
        /\ \A k \in DOMAIN recs : ~HasSentinel(recs[k].rec.key)
        /\ (pc = "wait" /\ wg = 0) =>
               /\ boundaries =
                      ExpectedBoundaries(n, config.msgsPerTransaction)
               /\ Len(ends) = Cardinality(boundaries) + 1
               /\ Status.Acked = n
               /\ Status.BadOffsets = 0
               /\ Cardinality(validOffsets) = n

\* C8: with abortRate = 1 every transaction is decided as aborted: every
\* record key carries the sentinel prefix and every EndTransaction asks for
\* an abort, while every record acknowledged at its predicted offset still
\* gets its entry in the Offset Ledger.
C8_AlwaysAbortScenario ==
    config.abortRate = RandDenominator =>
        /\ \A k \in DOMAIN recs : HasSentinel(recs[k].rec.key)
        /\ \A e \in DOMAIN ends : ~ends[e].commit
        /\ \A k \in DOMAIN recs :
               (recs[k].st = "done"
                  /\ recs[k].offset = recs[k].rec.key.sequence) =>
                   <<recs[k].partition, recs[k].offset>> \in validOffsets

\* C8 witness: with abortRate = 1 a transaction was aborted at a batch
\* boundary, another at finalization, and every record of the epoch, each
\* with the sentinel key, has its offset in the ledger.
C8_Witness ==
    /\ config.abortRate = RandDenominator
    /\ pc = "wait"
    /\ Len(ends) = 2
    /\ \A e \in DOMAIN ends : ends[e].ok /\ ~ends[e].commit
    /\ Len(recs) >= 2
    /\ \A k \in DOMAIN recs :
           /\ HasSentinel(recs[k].rec.key)
           /\ recs[k].st = "done"
           /\ <<recs[k].partition, recs[k].offset>> \in validOffsets

\* C9 (as stated): no failure of BeginTransaction, Flush or EndTransaction,
\* the first BeginTransaction of an epoch included, is fatal: no epoch
\* returns an error because of one, so Wait returns no error because of one.
C9_NoTransactionFailureFatal ==
    /\ \A k \in DOMAIN epochs :
           epochs[k].err => epochs[k].cause = "NewClient"
    /\ waitResult = "err" =>
           epochs[Len(epochs)].cause = "NewClient"

\* Is this step a failed client call made by the thread of produceInner.
ClientCallFails == failures' = failures + 1 /\ pc' # "crashed"

\* C9 (amended): a failure of Flush, EndTransaction or BeginTransaction at a
\* batch boundary, or of the final Flush or EndTransaction, is not fatal:
\* FailedTransactions grows by one for it, the epoch is marked errored and
\* goes on to finalization without a retry of the boundary (after the final
\* Flush to the final EndTransaction, after that to the wait), and the epoch
\* returns its count with no error. A failure of the first BeginTransaction
\* of an epoch is counted as well but is fatal: the epoch returns the error
\* at once and Wait returns it.
C9_FailureStep ==
    /\ (ClientCallFails /\ pc \in {"flushB", "endB", "beginB"}) =>
           /\ Status'.FailedTransactions = Status.FailedTransactions + 1
           /\ errored'
           /\ pc' = "flushF"
           /\ waitResult' = waitResult /\ epochs' = epochs
    /\ (ClientCallFails /\ pc \in {"flushF", "endF"}) =>
           /\ Status'.FailedTransactions = Status.FailedTransactions + 1
           /\ errored'
           /\ pc' = IF pc = "flushF" THEN "endF" ELSE "wait"
           /\ waitResult' = waitResult /\ epochs' = epochs
    /\ (ClientCallFails /\ pc = "begin0") =>
           /\ Status'.FailedTransactions = Status.FailedTransactions + 1
           /\ Len(epochs') = Len(epochs) + 1
           /\ epochs'[Len(epochs')].err
           /\ waitResult' = "err" /\ pc' = "done" /\ ~Status'.Active
    /\ (pc = "wait" /\ pc' \notin {"wait", "crashed"}) =>
           /\ Len(epochs') = Len(epochs) + 1
           /\ ~epochs'[Len(epochs')].err
           /\ waitResult' # "err"
    /\ (pc \in {"flushF", "endF"} /\ pc' \notin {pc, "crashed"}) =>
           pc' = IF pc = "flushF" THEN "endF" ELSE "wait"
    /\ (waitResult' = "err" /\ waitResult # "err") =>
           pc \in {"epoch", "begin0"}

C9_BoundaryFailureNotFatal == [][C9_FailureStep]_vars

\* C9 witness: Wait returned success although a client call of one of its
\* epochs failed, marked that epoch errored and was counted.
C9_Witness ==
    /\ waitResult = "nil"
    /\ failures = 1
    /\ Status.FailedTransactions = 1
    /\ Len(epochs) >= 1
    /\ \A k \in DOMAIN epochs : ~epochs[k].err

\* C10: whenever the dispatch loop is not in the middle of an iteration, and
\* whenever an epoch has returned, Sent is the number of records handed to
\* client.Produce since the Status was created, also when an epoch stopped at
\* a batch boundary because Flush, EndTransaction or BeginTransaction failed.
C10_SentIsDispatched ==
    pc \in {"idle", "epoch", "begin0", "loop", "flushF", "endF", "wait",
            "done"} =>
        Status.Sent = handed

\* The states of a handler that has not yet counted its record.
Uncounted == {"sent", "released", "lockedBad", "lockedAcked"}

\* The records of the running epoch whose handler has not counted them.
UncountedRecs == {k \in DOMAIN recs : recs[k].st \in Uncounted}

\* C11: under every interleaving of the handlers with the dispatch loop,
\* Acked + BadOffsets never exceeds Sent and is the number of records handed
\* to the client whose handler has counted them; Acked or BadOffsets changes
\* only when the handler of one record counts it, by exactly one, in
\* BadOffsets when the offset mismatched and in Acked otherwise, and a record
\* that was counted is never counted again.
C11_CountedExactlyOnce ==
    [][/\ Status'.Acked + Status'.BadOffsets <= Status'.Sent
       /\ Status'.Acked + Status'.BadOffsets =
              handed' - Cardinality(UncountedRecs')
       /\ (/\ <<Status'.Acked, Status'.BadOffsets>> #
                  <<Status.Acked, Status.BadOffsets>>
           /\ Status' # NewTransactionalProducerWorkerStatus) =>
              \E k \in UncountedRecs :
                  /\ UncountedRecs' = UncountedRecs \ {k}
                  /\ IF OffsetMatches(recs[k])
                       THEN /\ Status'.Acked = Status.Acked + 1
                            /\ Status'.BadOffsets = Status.BadOffsets
                       ELSE /\ Status'.BadOffsets = Status.BadOffsets + 1
                            /\ Status'.Acked = Status.Acked
       /\ (pc' = pc /\ UncountedRecs' # UncountedRecs) =>
              /\ UncountedRecs' \subseteq UncountedRecs
              /\ Status'.Acked + Status'.BadOffsets =
                     Status.Acked + Status.BadOffsets + 1
      ]_vars

\* C11 happens: while the dispatch loop is between two iterations one
\* record has been counted as acknowledged, one as a bad offset, and a third
\* is still waiting for its handler.
C11_Witness ==
    /\ pc = "loop"
    /\ Status.Acked = 1
    /\ Status.BadOffsets = 1
    /\ Status.Sent = 3
    /\ \E k \in DOMAIN recs : recs[k].st = "sent"

\* The counters of a Status.
Counters(status) ==
    <<status.Sent, status.Acked, status.BadOffsets,
      status.FailedTransactions, status.Restarts>>

\* C12: every step that changes a counter of the Status (Sent, Acked,
\* BadOffsets, FailedTransactions, Restarts) is taken by the holder of the
\* lock of the Status.
C12_CountersUnderLock ==
    [][Counters(Status') # Counters(Status) => lock # 0]_vars

\* C13: Active is true at every point between the start of Wait and its
\* return, and false whenever no Wait call is in progress: before the call,
\* and after it returned nil or returned the error of an epoch.
C13_ActiveDuringWait ==
    /\ pc \in {"idle", "done"} => ~Status.Active
    /\ pc \in {"epoch", "begin0", "loop", "acquire", "flushB", "endB",
               "beginB", "send", "flushF", "endF", "wait"} => Status.Active

\* C13 happens: Wait has returned the error of an epoch that had followed a
\* completed one, and Active is false.
C13_Witness ==
    /\ pc = "done"
    /\ waitResult = "err"
    /\ Len(epochs) = 2
    /\ ~Status.Active

\* C14: while Wait runs, Restarts is the number of invocations of produceInner
\* that preceded the current one, and at the step by which Wait returns, with
\* nil or with an error, after k invocations, Restarts is k - 1.
C14_RestartsPerEpoch ==
    [][/\ pc' \in {"epoch", "begin0", "loop", "acquire", "flushB", "endB",
                   "beginB", "send", "flushF", "endF", "wait"} =>
              Status'.Restarts = Len(epochs')
       /\ (pc # "done" /\ pc' = "done") =>
              Status'.Restarts = Len(epochs') - 1
      ]_vars

\* C14 happens: Wait has returned after three invocations of produceInner and
\* two restarts.
C14_Witness ==
    /\ pc = "done"
    /\ Len(epochs) = 3
    /\ Status.Restarts = 2

\* C15: no handler ever finds the bad-offset channel full when it is about to
\* enqueue its BadOffset, so that none blocks and the count of the WaitGroup
\* can reach zero.
C15_EnqueueNeverBlocks ==
    \A k \in DOMAIN recs :
        recs[k].st = "bad" => Len(bad_offsets) < ChannelCapacity

\* The records of the running epoch whose handler has not returned.
PendingRecs == {k \in DOMAIN recs : recs[k].st # "done"}

\* C16: the counter of the WaitGroup is always the number of dispatched
\* records whose handler has not returned; at the step by which the epoch
\* closes the channel, writes its checkpoint and returns, every handler of the
\* epoch has returned, the checkpoint holds the offset of every record of the
\* epoch acknowledged where predicted, and the returned list has one entry per
\* mismatched acknowledgement; and outside an epoch no handler is left to
\* enqueue, insert or count.
C16_FinalizationExhaustive ==
    [][/\ pc' # "crashed" => wg' = Cardinality(PendingRecs')
       /\ (pc = "wait" /\ pc' \in {"epoch", "done"}) =>
              /\ PendingRecs = {}
              /\ bad_offsets' = bad_offsets
              /\ validOffsets' = validOffsets
              /\ storedOffsets' = validOffsets
              /\ \A k \in DOMAIN recs :
                     OffsetMatches(recs[k]) =>
                         <<recs[k].partition, recs[k].offset>>
                             \in storedOffsets'
              /\ epochs'[Len(epochs')].bad =
                     Cardinality({k \in DOMAIN recs :
                                      ~OffsetMatches(recs[k])})
              /\ epochs'[Len(epochs')].bad = Len(bad_offsets)
       /\ pc' \in {"idle", "epoch", "done"} => PendingRecs' = {}
      ]_vars

\* C16 happens: an epoch in which a call of the client failed has returned
\* after two dispatched records, one of them acknowledged at an unexpected
\* offset, with a list of one bad offset.
C16_Witness ==
    /\ pc = "epoch"
    /\ failures = 1
    /\ Len(epochs) = 1
    /\ epochs[1].dispatched = 2
    /\ epochs[1].mismatched = 1
    /\ epochs[1].bad = 1

\* The records of the running epoch whose handler has not started.
UnacknowledgedRecs == {k \in DOMAIN recs : recs[k].st = "sent"}

\* C17: while the process runs, the records handed to the client whose
\* handler has not started are never more than the units taken from the
\* semaphore, hence never more than its capacity; within an epoch a unit comes
\* back only at the step by which the handler of one such record starts, one
\* unit for that record, and a record is handed to the client only by an
\* iteration that took a unit.
C17_GateBoundsUnacknowledged ==
    [][pc' # "crashed" =>
         /\ concurrent' >= 0
         /\ Cardinality(UnacknowledgedRecs') <= SemaphoreCapacity - concurrent'
         /\ Cardinality(UnacknowledgedRecs') <= SemaphoreCapacity
         /\ (pc # "epoch" /\ concurrent' > concurrent) =>
                /\ concurrent' = concurrent + 1
                /\ \E k \in UnacknowledgedRecs :
                       UnacknowledgedRecs' = UnacknowledgedRecs \ {k}
         /\ (pc # "epoch" /\ UnacknowledgedRecs' # UnacknowledgedRecs) =>
                \/ /\ pc = "send"
                   /\ UnacknowledgedRecs' =
                          UnacknowledgedRecs \cup {Len(recs) + 1}
                   /\ concurrent' = concurrent
                   /\ concurrent < SemaphoreCapacity
                \/ /\ UnacknowledgedRecs' \subseteq UnacknowledgedRecs
                   /\ concurrent' = concurrent + 1
      ]_vars

\* C17 happens: as many records as the semaphore has units wait for their
\* acknowledgement and the dispatch loop waits in Acquire.
C17_Witness ==
    /\ pc = "acquire"
    /\ concurrent = 0
    /\ Cardinality(UnacknowledgedRecs) = SemaphoreCapacity

\* The records handed to the client while the channel held a bad offset.
DispatchedAfterBad == {k \in DOMAIN recs : recs[k].afterBad}

\* C18: once the channel holds a bad offset, the loop condition sends the
\* epoch to its final Flush and no new iteration is entered, so that at most
\* one record of an epoch (that of the iteration in progress at the enqueue)
\* is handed to the client afterwards; the records already handed over stay,
\* and when the epoch returns each of them has been counted by its handler.
C18_StopsAfterBadOffset ==
    [][/\ Cardinality(DispatchedAfterBad') <= 1
       /\ (Len(bad_offsets) > 0 /\ pc = "loop" /\ pc' # "loop") =>
              pc' \in {"flushF", "crashed"}
       /\ (Len(bad_offsets) > 0 /\ pc # "acquire") => pc' # "acquire"
       /\ pc # "epoch" =>
              \A k \in DOMAIN recs :
                  /\ k \in DOMAIN recs'
                  /\ recs'[k].rec = recs[k].rec
       /\ (pc = "wait" /\ pc' \in {"epoch", "done"}) => UncountedRecs = {}
      ]_vars

\* C18 happens: the loop was left before the requested count because of a bad
\* offset, after the iteration that was in progress at the enqueue had handed
\* its record to the client.
C18_Witness ==
    /\ pc = "flushF"
    /\ i < n
    /\ Len(bad_offsets) = 1
    /\ DispatchedAfterBad # {}
    /\ failures = 0

\* C19: in every state in which the lock of the Status is free, the number of
\* samples of the latency histogram is Acked.
C19_LatencyWithAcked ==
    lock = 0 => Status.latency = Status.Acked

\* C20: every EndTransaction call is made while a transaction opened by a
\* successful BeginTransaction is open, and no transaction is the subject of
\* two EndTransaction calls.
C20_BeginEndAlternate ==
    /\ \A j \in DOMAIN ends : ends[j].txn # 0
    /\ \A j1, j2 \in DOMAIN ends : j1 # j2 => ends[j1].txn # ends[j2].txn

====
